---- MODULE Spec2Model ----
(***************************************************************************)
(* Optica POS backend: the order-creation workflow and the order status    *)
(* endpoint (routers/pos.py), the inventory endpoints                      *)
(* (routers/inventory.py), the lab order and prescription endpoints        *)
(* (routers/lab_orders.py), the expense endpoints (routers/expenses.py),   *)
(* registration and profile update (routers/users.py) and the tables they  *)
(* write (models.py).                                                      *)
(*                                                                         *)
(* The database holds the committed rows.  Every create_order request owns *)
(* a SQLAlchemy session: the rows it has loaded (its identity map) are a   *)
(* private working copy, and nothing staged or flushed in the session is   *)
(* visible to another request before db.commit() (read committed).  A      *)
(* request reads committed rows only; the handler takes no row lock (no    *)
(* with_for_update) and carries no version column, and the UPDATE that a   *)
(* commit emits stores the stock value computed in Python.                 *)
(*                                                                         *)
(* Requests that overlap (served by different workers over one database)   *)
(* interleave at their reads and their commit; the steps of create_order   *)
(* are the loop iteration, the flush and the commit.  The inventory        *)
(* handlers read, write and commit in one step.                            *)
(*                                                                         *)
(* Prices are whole numbers of currency units.  Timestamps and the         *)
(* description column play no part in any property and are left out, and   *)
(* so is delete_product.                                                   *)
(***************************************************************************)
EXTENDS Integers, Sequences, FiniteSets, TLC

(* ------------------------------ bounds --------------------------------- *)

\* number of product rows that are ever inserted
MaxProducts == 2
\* order ids handed out by the orders sequence
MaxOrders == 2
\* stock values explored: -MaxDeficit .. MaxStock
MaxStock == 5
MaxDeficit == 1
\* lab order rows that are ever inserted
MaxLabOrders == 1
\* expense rows that are ever inserted
MaxExpenses == 2
\* user rows that are ever inserted
MaxUsers == 2

(* ------------------------------ values --------------------------------- *)

\* a nullable column or Optional field: NULL, or Some(v)
NULL == <<>>
Some(v) == <<v>>

\* requests to create_order that can be in progress at the same time
Sessions == {"s1", "s2"}

ProductIds == 1..MaxProducts

StockRange == (0 - MaxDeficit)..MaxStock

\* ProductCreate bodies (models.py:115-122: name, price, stock: int)
ProductInputs ==
    { [name |-> "A", price |-> 10, stock |-> 5],
      [name |-> "B", price |-> 20, stock |-> 2],
      [name |-> "A", price |-> 10, stock |-> -1] }

\* the products the shop is stocked with in the order workflow
Catalogue ==
    { [name |-> "A", price |-> 10, stock |-> 5],
      [name |-> "B", price |-> 20, stock |-> 2] }

\* update_stock parameters: quantity is any int, operation any string
Quantities == {-1, 3}
Operations == {"increase", "decrease", "set"}

\* OrderItemBase (models.py:158-160): product_id and quantity are any int
OrderItemBase(product_id, quantity) ==
    [product_id |-> product_id, quantity |-> quantity]

\* OrderCreate (models.py:162-164); a prescription body is one token per
\* distinct set of field values
OrderCreate(items, prescription) ==
    [items |-> items, prescription |-> prescription]

\* the request bodies sent to create_order: one line with a prescription,
\* two products, the same product twice, a negative quantity, no line at all
OrderInputs ==
    { OrderCreate(<<OrderItemBase(1, 3)>>, Some("rx1")),
      OrderCreate(<<OrderItemBase(1, 3), OrderItemBase(2, 3)>>, NULL),
      OrderCreate(<<OrderItemBase(1, 3), OrderItemBase(1, 3)>>, NULL),
      OrderCreate(<<OrderItemBase(2, -1)>>, NULL),
      OrderCreate(<<>>, NULL) }

\* the one body sent while the inventory endpoints are exercised
InventoryOrderInputs == { OrderCreate(<<OrderItemBase(1, 3)>>, NULL) }

(* ------------------------------ state ---------------------------------- *)

VARIABLES
    products,       \* table products: row id -> [name, price, stock]
    orders,         \* table orders: set of rows [id, user_id, total_amount, status]
    order_items,    \* table order_items: sequence of association rows
    prescriptions,  \* table prescriptions: set of rows [id, order_id, fields]
    order_seq,      \* last id handed out by the orders id sequence
    session,        \* per request: the position in create_order and its locals
    reply,          \* the response of the last request served in one step
    lab_orders,     \* table lab_orders: row id -> [prescription_id, status, notes]
    expenses,       \* table expenses: set of rows [id, amount, category, created_by]
    users,          \* table users: row id -> [username, email]
    user_req        \* per register_user / update_user request: its position

vars == <<products, orders, order_items, prescriptions, order_seq, session, reply,
          lab_orders, expenses, users, user_req>>

\* what a reader of the database can see
persisted == <<products, orders, order_items, prescriptions>>

(* --------------------------- responses --------------------------------- *)

\* the detail of an HTTPException this code raises; product_id and name are
\* the values formatted into the message (0 and "" when there is none)
Detail(kind, product_id, name) ==
    [kind |-> kind, product_id |-> product_id, name |-> name]

\* an exception raised inside the try block of create_order: the
\* HTTPException of pos.py:78-81 or 83-86 with its status code, or an error of
\* the storage layer (status_code 0: it has none)
HTTPException(status_code, detail) ==
    [status_code |-> status_code, detail |-> detail]

\* a failure of the storage layer (SQLAlchemyError) raised by db.commit()
StorageError == [status_code |-> 0, detail |-> Detail("storage error", 0, "")]

\* a handler that swallows the exception and reports the order as created
ExceptHandlerSwallows(e) ==
    [status_code |-> 201, detail |-> e.detail, wraps |-> e.status_code, order |-> NULL]

\* pos.py:115-120.  `except Exception` also catches the HTTPException that the
\* loop raised: whatever e was, the caller gets 400 and detail = str(e).  The
\* status code e carried survives only inside that text (wraps).
ExceptHandler(e) ==
    [status_code |-> 400, detail |-> e.detail, wraps |-> e.status_code, order |-> NULL]

\* error_handlers.py:29-33, registered for Exception at line 38
general_exception_handler ==
    [status_code |-> 500, detail |-> Detail("An unexpected error occurred", 0, ""),
     wraps |-> 0, order |-> NULL]

\* The return of create_order goes through response_model=OrderResponse
\* (pos.py:64).  OrderResponse.user_id is a required int (models.py:168); a row
\* whose user_id is NULL does not validate, and the validation error reaches the
\* handler registered for Exception.
OrderResponse(db_order, prescription) ==
    IF db_order.user_id = NULL
    THEN general_exception_handler
    ELSE [status_code |-> 201, detail |-> Detail("created", 0, ""), wraps |-> 0,
          order |-> Some([id |-> db_order.id,
                          total_amount |-> db_order.total_amount,
                          status |-> db_order.status,
                          prescription |-> prescription])]

(* --------------------------- the session ------------------------------- *)

NoIdentity == [p \in {} |-> NULL]

NoOrder == [items |-> <<>>, prescription |-> NULL]

IdleSession ==
    [pc |-> "idle", order |-> NoOrder, identity |-> NoIdentity, total_amount |-> 0,
     order_products |-> <<>>, db_order |-> NULL, prescription |-> NULL,
     response |-> NULL]

\* a request that has been answered: its locals are gone, the body it sent and
\* the response it got remain for the caller
Answered(s, response) ==
    [IdleSession EXCEPT !.pc = "done", !.order = session[s].order,
                        !.response = Some(response)]

\* a lookup that goes past the session and always reads the committed row
QueryCommitted(s, product_id) ==
    IF product_id \in DOMAIN products
    THEN Some([name |-> products[product_id].name,
               price |-> products[product_id].price,
               stock |-> products[product_id].stock,
               loaded_stock |-> products[product_id].stock])
    ELSE NULL

\* db.query(Product).filter(Product.id == product_id).first(), pos.py:76.
\* A row already in the session's identity map comes back as the object the
\* session holds (with the stock the loop has staged); otherwise the committed
\* row is loaded, and loaded_stock remembers the value it was loaded with.
Query(s, product_id) ==
    IF product_id \in DOMAIN session[s].identity
    THEN Some(session[s].identity[product_id])
    ELSE IF product_id \in DOMAIN products
         THEN Some([name |-> products[product_id].name,
                    price |-> products[product_id].price,
                    stock |-> products[product_id].stock,
                    loaded_stock |-> products[product_id].stock])
         ELSE NULL

\* a loop that takes the second line before the first
LineNoSwapped(s) ==
    LET n == Len(session[s].order_products) + 1
    IN IF Len(session[s].order.items) >= 2 /\ n <= 2 THEN 3 - n ELSE n

\* a check that also refuses a quantity that is not positive
InsufficientOrNotPositive(stock, quantity) == stock < quantity \/ quantity <= 0

\* pos.py:82: if product.stock < item.quantity
InsufficientLineStock(stock, quantity) == stock < quantity

\* the index of the line the loop of pos.py:75 is at
LineNo(s) == Len(session[s].order_products) + 1

\* rows of the identity map whose stock attribute has a net change
Dirty(s) ==
    { p \in DOMAIN session[s].identity :
        session[s].identity[p].stock # session[s].identity[p].loaded_stock }

\* db.commit(), pos.py:111, on the products table: one UPDATE per dirty row,
\* SET stock = the value staged in the session
CommitProducts(s) ==
    [p \in DOMAIN products |->
        IF p \in Dirty(s)
        THEN [products[p] EXCEPT !.stock = session[s].identity[p].stock]
        ELSE products[p]]

\* a handler that commits what the session staged where it should roll back
RollbackKeepsStaged(s) == CommitProducts(s)

\* db.rollback(), pos.py:116, on the products table: nothing staged is kept
RollbackProducts(s) == products

\* an Order built already completed
NewOrderStatusCompleted == "completed"

\* status of the Order that pos.py:94-98 builds
NewOrderStatus == "pending"

\* the order_items rows that flushing Order(products=order_products) inserts:
\* one per entry of the list, with the two foreign keys only; nothing in
\* create_order assigns quantity or price_at_time (models.py:15-16)
AssociationRows(order_id, order_products) ==
    [k \in 1..Len(order_products) |->
        [order_id |-> order_id, product_id |-> order_products[k],
         quantity |-> NULL, price_at_time |-> NULL]]

(* ------------------------------ users ---------------------------------- *)

\* register_user and update_user requests that can be in progress at the
\* same time
UserRequests == {"r1", "r2"}

UserIds == 1..MaxUsers

\* UserCreate bodies (models.py:99-105); full_name and password play no part
UserInputs == [username : {"u1", "u2"}, email : {"e1", "e2"}]

\* a request that is not in progress
IdleUserRequest ==
    [pc |-> "idle", op |-> "", current_user |-> 0,
     user |-> [username |-> "", email |-> ""]]

(* ------------------------------ Init ----------------------------------- *)

NoReply == [op |-> "", status_code |-> 0, detail |-> ""]

Init ==
    /\ products = <<>>
    /\ orders = {}
    /\ order_items = <<>>
    /\ prescriptions = {}
    /\ order_seq = 0
    /\ session = [s \in Sessions |-> IdleSession]
    /\ reply = NoReply
    /\ lab_orders = <<>>
    /\ expenses = {}
    /\ users = <<>>
    /\ user_req = [r \in UserRequests |-> IdleUserRequest]

(* --------------------- create_order, pos.py:64-120 --------------------- *)

\* the request arrives: total_amount = 0, order_products = [] (pos.py:72-73)
CreateOrderBegin(s, order) ==
    /\ session[s].pc \in {"idle", "done"}
    /\ session' = [session EXCEPT ![s] = [IdleSession EXCEPT !.pc = "items",
                                                             !.order = order]]
    /\ UNCHANGED <<users, user_req, products, orders, order_items, prescriptions, order_seq, reply, lab_orders, expenses>>

\* one iteration of the loop, pos.py:75-91
CreateOrderItem(s) ==
    /\ session[s].pc = "items"
    /\ LineNo(s) <= Len(session[s].order.items)
    /\ LET item == session[s].order.items[LineNo(s)]
           found == Query(s, item.product_id)
       IN IF found = NULL
          THEN \* pos.py:77-81, caught at 115
               /\ session' = [session EXCEPT ![s] =
                     Answered(s, ExceptHandler(HTTPException(404,
                         Detail("Product with id not found", item.product_id, ""))))]
               /\ products' = RollbackProducts(s)
          ELSE LET product == found[1] IN
               IF InsufficientLineStock(product.stock, item.quantity)
               THEN \* pos.py:82-86, caught at 115
                    /\ session' = [session EXCEPT ![s] =
                          Answered(s, ExceptHandler(HTTPException(400,
                              Detail("Insufficient stock for product", 0, product.name))))]
                    /\ products' = RollbackProducts(s)
               ELSE \* pos.py:89-91
                    /\ product.stock - item.quantity \in StockRange
                    /\ session' = [session EXCEPT
                          ![s].identity =
                              [p \in DOMAIN session[s].identity \cup {item.product_id} |->
                                  IF p = item.product_id
                                  THEN [product EXCEPT !.stock = product.stock - item.quantity]
                                  ELSE session[s].identity[p]],
                          ![s].total_amount =
                              session[s].total_amount + product.price * item.quantity,
                          ![s].order_products =
                              Append(session[s].order_products, item.product_id)]
                    /\ products' = products
    /\ UNCHANGED <<users, user_req, orders, order_items, prescriptions, order_seq, reply, lab_orders, expenses>>

\* pos.py:93-109: the Order is built and flushed to get its id, the
\* Prescription is built and added.  Both are staged in the session only.
CreateOrderFlush(s) ==
    /\ session[s].pc = "items"
    /\ LineNo(s) > Len(session[s].order.items)
    /\ order_seq < MaxOrders
    /\ order_seq' = order_seq + 1
    /\ session' = [session EXCEPT
          ![s].pc = "commit",
          ![s].db_order = Some([id |-> order_seq + 1,
                                user_id |-> NULL,
                                total_amount |-> session[s].total_amount,
                                status |-> NewOrderStatus,
                                products |-> session[s].order_products]),
          ![s].prescription =
              IF session[s].order.prescription # NULL
              THEN Some([order_id |-> order_seq + 1,
                         fields |-> session[s].order.prescription[1]])
              ELSE NULL]
    /\ UNCHANGED <<users, user_req, products, orders, order_items, prescriptions, reply, lab_orders, expenses>>

\* the rows a commit of session s adds to each table
CommitOrders(s) ==
    LET db_order == session[s].db_order[1]
    IN orders \cup {[id |-> db_order.id, user_id |-> db_order.user_id,
                     total_amount |-> db_order.total_amount,
                     status |-> db_order.status]}

CommitOrderItems(s) ==
    LET db_order == session[s].db_order[1]
    IN order_items \o AssociationRows(db_order.id, db_order.products)

\* a commit that leaves the prescription out of the transaction
CommitWithoutPrescription(s) == prescriptions

\* a commit that inserts the staged prescription twice
CommitPrescriptionTwice(s) ==
    IF session[s].prescription = NULL
    THEN prescriptions
    ELSE prescriptions \cup
            { [id |-> Cardinality(prescriptions) + k,
               order_id |-> session[s].prescription[1].order_id,
               fields |-> session[s].prescription[1].fields] : k \in 1..2 }

\* db.commit() on the prescriptions table: the row staged at pos.py:104-109
CommitPrescriptions(s) ==
    IF session[s].prescription = NULL
    THEN prescriptions
    ELSE prescriptions \cup
            {[id |-> Cardinality(prescriptions) + 1,
              order_id |-> session[s].prescription[1].order_id,
              fields |-> session[s].prescription[1].fields]}

\* pos.py:111-113: db.commit() makes everything staged durable in one
\* transaction; the refreshed order is returned through OrderResponse
CreateOrderCommit(s) ==
    /\ session[s].pc = "commit"
    /\ products' = CommitProducts(s)
    /\ orders' = CommitOrders(s)
    /\ order_items' = CommitOrderItems(s)
    /\ prescriptions' = CommitPrescriptions(s)
    /\ session' = [session EXCEPT ![s] =
          Answered(s, OrderResponse(session[s].db_order[1],
                                    session[s].order.prescription))]
    /\ UNCHANGED <<users, user_req, order_seq, reply, lab_orders, expenses>>

\* db.commit() raises (pos.py:111): caught at 115, rolled back at 116
CreateOrderCommitFails(s) ==
    /\ session[s].pc = "commit"
    /\ session' = [session EXCEPT ![s] = Answered(s, ExceptHandler(StorageError))]
    /\ products' = RollbackProducts(s)
    /\ UNCHANGED <<users, user_req, orders, order_items, prescriptions, order_seq, reply, lab_orders, expenses>>

(* ------------------- inventory.py and pos.py products ------------------ *)

Reply(op, status_code, detail) ==
    [op |-> op, status_code |-> status_code, detail |-> detail]

\* db.query(Product).filter(Product.name == name).first() finds a row
NameExists(name) == \E p \in DOMAIN products : products[p].name = name

\* Product(**product.dict()): the row inserted for a ProductCreate body
NewProduct(product) ==
    [name |-> product.name, price |-> product.price, stock |-> product.stock]

\* inventory.py:43-72
add_product(product) ==
    /\ Len(products) < MaxProducts
    /\ IF NameExists(product.name)
       THEN /\ reply' = Reply("add_product", 400, "Product with this name already exists")
            /\ products' = products
       ELSE /\ reply' = Reply("add_product", 201, "")
            /\ products' = Append(products, NewProduct(product))
    /\ UNCHANGED <<users, user_req, orders, order_items, prescriptions, order_seq, session, lab_orders, expenses>>

\* pos.py:45-61: no lookup by name before the insert
create_product(product) ==
    /\ Len(products) < MaxProducts
    /\ reply' = Reply("create_product", 201, "")
    /\ products' = Append(products, NewProduct(product))
    /\ UNCHANGED <<users, user_req, orders, order_items, prescriptions, order_seq, session, lab_orders, expenses>>

\* inventory.py:74-115
update_product(product_id, product_update) ==
    /\ IF product_id \notin DOMAIN products
       THEN /\ reply' = Reply("update_product", 404, "Product not found")
            /\ products' = products
       ELSE IF /\ product_update.name # products[product_id].name
               /\ NameExists(product_update.name)
            THEN /\ reply' = Reply("update_product", 400,
                                   "Product with this name already exists")
                 /\ products' = products
            ELSE /\ reply' = Reply("update_product", 200, "")
                 /\ products' = [products EXCEPT ![product_id] = NewProduct(product_update)]
    /\ UNCHANGED <<users, user_req, orders, order_items, prescriptions, order_seq, session, lab_orders, expenses>>

\* an adjustment that adds the quantity whatever the operation
AdjustedStockAlwaysAdds(stock, quantity, operation) == stock + quantity

\* the stock that inventory.py:147-150 assigns
AdjustedStock(stock, quantity, operation) ==
    IF operation = "increase" THEN stock + quantity ELSE stock - quantity

\* a guard that lets every decrease through
NeverInsufficient(stock, quantity, operation) == FALSE

\* inventory.py:141: if operation == "decrease" and product.stock < quantity
InsufficientStock(stock, quantity, operation) ==
    operation = "decrease" /\ stock < quantity

\* inventory.py:117-167
update_stock(product_id, quantity, operation) ==
    /\ IF operation \notin {"increase", "decrease"}
       THEN /\ reply' = Reply("update_stock", 400, "Invalid operation")
            /\ products' = products
       ELSE IF product_id \notin DOMAIN products
            THEN /\ reply' = Reply("update_stock", 404, "Product not found")
                 /\ products' = products
            ELSE IF InsufficientStock(products[product_id].stock, quantity, operation)
                 THEN /\ reply' = Reply("update_stock", 400, "Insufficient stock")
                      /\ products' = products
                 ELSE /\ AdjustedStock(products[product_id].stock, quantity, operation)
                             \in StockRange
                      /\ reply' = Reply("update_stock", 200, "Stock updated successfully")
                      /\ products' = [products EXCEPT ![product_id].stock =
                            AdjustedStock(products[product_id].stock, quantity, operation)]
    /\ UNCHANGED <<users, user_req, orders, order_items, prescriptions, order_seq, session, lab_orders, expenses>>

(* ------------------ order status and prescriptions --------------------- *)

\* the order row with this id is visible
Persisted(order_id, table) == \E o \in table : o.id = order_id

\* ids a caller names in update_order_status
OrderIds == 1..MaxOrders

\* the status strings callers send to update_order_status
StatusInputs == {"pending", "completed", "cancelled", "shipped"}

\* a list that lets every status string through
any_status == StatusInputs

\* pos.py:156
valid_statuses == {"pending", "completed", "cancelled"}

\* the reply of general_exception_handler (error_handlers.py:29-33) to a
\* handler that answers in one step
UnexpectedError(op) == Reply(op, 500, "An unexpected error occurred")

\* an assignment that also clears the amount of the order
WithStatusAndNoAmount(order, status) ==
    [order EXCEPT !.status = status, !.total_amount = 0]

\* an assignment that also makes the order belong to user 1
WithStatusAndOwner(order, status) ==
    [order EXCEPT !.status = status, !.user_id = Some(1)]

\* pos.py:170: order.status = status (updated_at is not modelled)
WithStatus(order, status) == [order EXCEPT !.status = status]

\* pos.py:147-183.  The parameter `status: str` (line 150) hides the fastapi
\* `status` module inside the handler, so building either HTTPException
\* (lines 158-161 and 165-168) evaluates status.HTTP_... on a str and raises
\* AttributeError: both failures are answered by general_exception_handler.
\* Nothing compares the new status with the one the order has.
update_order_status(order_id, status) ==
    /\ IF status \notin valid_statuses
       THEN /\ reply' = UnexpectedError("update_order_status")
            /\ orders' = orders
       ELSE IF ~Persisted(order_id, orders)
            THEN /\ reply' = UnexpectedError("update_order_status")
                 /\ orders' = orders
            ELSE /\ reply' = Reply("update_order_status", 200,
                                   "Order status updated successfully")
                 /\ orders' = { IF o.id = order_id THEN WithStatus(o, status) ELSE o :
                                o \in orders }
    /\ UNCHANGED <<users, user_req, products, order_items, prescriptions, order_seq, session,
                   lab_orders, expenses>>

\* PrescriptionCreate bodies sent to update_prescription
PrescriptionInputs == {"rx1", "rx2"}

\* ids a caller names in the prescription and lab order endpoints
PrescriptionIds == 1..MaxOrders

\* lab_orders.py:171-205: every field of the body is set on the row; order_id
\* is not a field of PrescriptionCreate (models.py:132-147)
update_prescription(prescription_id, prescription_update) ==
    /\ IF \A r \in prescriptions : r.id # prescription_id
       THEN /\ reply' = Reply("update_prescription", 404, "Prescription not found")
            /\ prescriptions' = prescriptions
       ELSE /\ reply' = Reply("update_prescription", 200,
                              "Prescription updated successfully")
            /\ prescriptions' =
                  { IF r.id = prescription_id
                    THEN [r EXCEPT !.fields = prescription_update]
                    ELSE r : r \in prescriptions }
    /\ UNCHANGED <<users, user_req, products, orders, order_items, order_seq, session,
                   lab_orders, expenses>>

(* ---------------------- lab orders, lab_orders.py ---------------------- *)

\* the status strings callers send in a LabOrderCreate body and to
\* update_lab_order_status (LabOrderBase.status is a bare str, models.py:180)
LabStatusInputs == {"pending", "in-progress", "completed", "shipped"}

\* the notes callers send
NotesInputs == {"n1"}

\* LabOrderCreate bodies (models.py:178-184)
LabOrderInputs ==
    [prescription_id : PrescriptionIds, status : LabStatusInputs,
     notes : {NULL} \cup {Some(n) : n \in NotesInputs}]

LabOrderIds == 1..MaxLabOrders

\* lab_orders.py:95
lab_valid_statuses == {"pending", "in-progress", "completed", "cancelled"}

\* LabOrder(**lab_order.dict()), lab_orders.py:58: the three fields as sent
LabOrder(lab_order) ==
    [prescription_id |-> lab_order.prescription_id, status |-> lab_order.status,
     notes |-> lab_order.notes]

\* a lookup that finds a prescription under every id
PrescriptionNeverMissing(prescription_id) == FALSE

\* lab_orders.py:48-51: the query by Prescription.id finds no row
PrescriptionMissing(prescription_id) ==
    \A r \in prescriptions : r.id # prescription_id

\* lab_orders.py:39-71: the prescription must exist; the status of the body is
\* stored without being compared with any list
create_lab_order(lab_order) ==
    /\ Len(lab_orders) < MaxLabOrders
    /\ IF PrescriptionMissing(lab_order.prescription_id)
       THEN /\ reply' = Reply("create_lab_order", 404, "Prescription not found")
            /\ lab_orders' = lab_orders
       ELSE /\ reply' = Reply("create_lab_order", 201, "")
            /\ lab_orders' = Append(lab_orders, LabOrder(lab_order))
    /\ UNCHANGED <<users, user_req, products, orders, order_items, prescriptions, order_seq, session,
                   expenses>>

\* lab_orders.py:86-122.  As in update_order_status the parameter
\* `status: str` (line 89) hides the fastapi `status` module: the
\* HTTPException of lines 97-100 and the one of lines 104-107 are never built,
\* the AttributeError is answered by general_exception_handler.  The new
\* status is not compared with the current one.
update_lab_order_status(lab_order_id, status) ==
    /\ IF status \notin lab_valid_statuses
       THEN /\ reply' = UnexpectedError("update_lab_order_status")
            /\ lab_orders' = lab_orders
       ELSE IF lab_order_id \notin DOMAIN lab_orders
            THEN /\ reply' = UnexpectedError("update_lab_order_status")
                 /\ lab_orders' = lab_orders
            ELSE /\ reply' = Reply("update_lab_order_status", 200,
                                   "Lab order status updated successfully")
                 /\ lab_orders' = [lab_orders EXCEPT ![lab_order_id].status = status]
    /\ UNCHANGED <<users, user_req, products, orders, order_items, prescriptions, order_seq, session,
                   expenses>>

\* lab_orders.py:124-153
update_lab_order_notes(lab_order_id, notes) ==
    /\ IF lab_order_id \notin DOMAIN lab_orders
       THEN /\ reply' = Reply("update_lab_order_notes", 404, "Lab order not found")
            /\ lab_orders' = lab_orders
       ELSE /\ reply' = Reply("update_lab_order_notes", 200,
                              "Lab order notes updated successfully")
            /\ lab_orders' = [lab_orders EXCEPT ![lab_order_id].notes = Some(notes)]
    /\ UNCHANGED <<users, user_req, products, orders, order_items, prescriptions, order_seq, session,
                   expenses>>

(* ------------------------- expenses, expenses.py ----------------------- *)

\* expenses.py:33-44
EXPENSE_CATEGORIES ==
    {"rent", "utilities", "salaries", "supplies", "equipment", "maintenance",
     "marketing", "insurance", "taxes", "other"}

\* the user get_current_user resolves the token to (users.py:39-59): an
\* administrator and a user who is not one (User.is_admin, models.py:29)
Callers == { [id |-> 1, is_admin |-> TRUE], [id |-> 2, is_admin |-> FALSE] }

\* ExpenseCreate bodies (expenses.py:14-21); category is a bare str.  The
\* description and the date play no part and are left out.
ExpenseInputs == [amount : {100, 250}, category : {"rent", "other", "travel"}]

ExpenseIds == 1..MaxExpenses

\* The Expense table.  The class is not part of the sources (expenses.py:13
\* leaves it for later) and is taken from the data model of the
\* specification: identity, amount, category, creator reference.
Expense(id, expense, created_by) ==
    [id |-> id, amount |-> expense.amount, category |-> expense.category,
     created_by |-> created_by]

\* the id the table gives the next row
NewExpenseId ==
    IF expenses = {} THEN 1
    ELSE 1 + CHOOSE n \in {e.id : e \in expenses} : \A e \in expenses : e.id <= n

\* a check that accepts every category
AnyCategory(category) == FALSE

\* expenses.py:61 and 240: category not in EXPENSE_CATEGORIES
InvalidCategory(category) == category \notin EXPENSE_CATEGORIES

\* a check that lets every caller through
EveryoneAuthorized(current_user) == FALSE

\* expenses.py:55, 98, 142, 210, 234, 280: if not current_user.is_admin
NotAuthorized(current_user) == ~current_user.is_admin

\* expenses.py:46-83
create_expense(expense, current_user) ==
    /\ NewExpenseId <= MaxExpenses
    /\ IF NotAuthorized(current_user)
       THEN /\ reply' = Reply("create_expense", 403, "Not authorized to create expenses")
            /\ expenses' = expenses
       ELSE IF InvalidCategory(expense.category)
            THEN /\ reply' = Reply("create_expense", 400, "Invalid category")
                 /\ expenses' = expenses
            ELSE /\ reply' = Reply("create_expense", 201, "")
                 /\ expenses' = expenses \cup
                                   {Expense(NewExpenseId, expense, current_user.id)}
    /\ UNCHANGED <<users, user_req, products, orders, order_items, prescriptions, order_seq, session,
                   lab_orders>>

\* expenses.py:224-269: the category is checked before the row is looked up;
\* every field of the body is set on the row, created_by is not one of them
update_expense(expense_id, expense_update, current_user) ==
    /\ IF NotAuthorized(current_user)
       THEN /\ reply' = Reply("update_expense", 403, "Not authorized to update expenses")
            /\ expenses' = expenses
       ELSE IF InvalidCategory(expense_update.category)
            THEN /\ reply' = Reply("update_expense", 400, "Invalid category")
                 /\ expenses' = expenses
            ELSE IF \A e \in expenses : e.id # expense_id
                 THEN /\ reply' = Reply("update_expense", 404, "Expense not found")
                      /\ expenses' = expenses
                 ELSE /\ reply' = Reply("update_expense", 200, "")
                      /\ expenses' =
                            { IF e.id = expense_id
                              THEN Expense(e.id, expense_update, e.created_by)
                              ELSE e : e \in expenses }
    /\ UNCHANGED <<users, user_req, products, orders, order_items, prescriptions, order_seq, session,
                   lab_orders>>

\* expenses.py:271-303
delete_expense(expense_id, current_user) ==
    /\ IF NotAuthorized(current_user)
       THEN /\ reply' = Reply("delete_expense", 403, "Not authorized to delete expenses")
            /\ expenses' = expenses
       ELSE IF \A e \in expenses : e.id # expense_id
            THEN /\ reply' = Reply("delete_expense", 404, "Expense not found")
                 /\ expenses' = expenses
            ELSE /\ reply' = Reply("delete_expense", 200, "Expense deleted successfully")
                 /\ expenses' = { e \in expenses : e.id # expense_id }
    /\ UNCHANGED <<users, user_req, products, orders, order_items, prescriptions, order_seq, session,
                   lab_orders>>

\* the category filter of get_expenses (Optional[str]) and the period of
\* get_expense_summary (str)
CategoryFilters == {NULL, Some("rent"), Some("travel")}

PeriodInputs == {"month", "day"}

\* expenses.py:85-131; the date filter is left out
get_expenses(category, current_user) ==
    /\ IF NotAuthorized(current_user)
       THEN reply' = Reply("get_expenses", 403, "Not authorized to view expenses")
       ELSE IF category # NULL /\ InvalidCategory(category[1])
            THEN reply' = Reply("get_expenses", 400, "Invalid category")
            ELSE reply' = Reply("get_expenses", 200, "")
    /\ UNCHANGED <<users, user_req, products, orders, order_items, prescriptions, order_seq, session,
                   lab_orders, expenses>>

\* expenses.py:133-192
get_expense_summary(period, current_user) ==
    /\ IF NotAuthorized(current_user)
       THEN reply' = Reply("get_expense_summary", 403,
                           "Not authorized to view expense summary")
       ELSE IF period \notin {"week", "month", "year"}
            THEN reply' = Reply("get_expense_summary", 400,
                                "Invalid period. Use week, month, or year")
            ELSE reply' = Reply("get_expense_summary", 200, "")
    /\ UNCHANGED <<users, user_req, products, orders, order_items, prescriptions, order_seq, session,
                   lab_orders, expenses>>

\* expenses.py:201-222
get_expense(expense_id, current_user) ==
    /\ IF NotAuthorized(current_user)
       THEN reply' = Reply("get_expense", 403, "Not authorized to view expenses")
       ELSE IF \A e \in expenses : e.id # expense_id
            THEN reply' = Reply("get_expense", 404, "Expense not found")
            ELSE reply' = Reply("get_expense", 200, "")
    /\ UNCHANGED <<users, user_req, products, orders, order_items, prescriptions, order_seq, session,
                   lab_orders, expenses>>

(* --------------------------- users, users.py --------------------------- *)

\* db.query(User).filter(User.username == username).first() finds a row
UsernameExists(username) == \E k \in DOMAIN users : users[k].username = username

\* db.query(User).filter(User.email == email).first() finds a row
EmailExists(email) == \E k \in DOMAIN users : users[k].email = email

\* a table without unique indexes
NoUniqueConstraint(row, self) == FALSE

\* models.py:24-25: email and username are declared unique=True, so the
\* INSERT or UPDATE of a row (self is its id, 0 for a new row) fails with
\* IntegrityError when another row has its username or its email
UniqueViolation(row, self) ==
    \E k \in DOMAIN users :
        /\ k # self
        /\ (users[k].username = row.username \/ users[k].email = row.email)

\* users.py:98-121: the two lookups, then the User is built and added
register_user(r, user) ==
    /\ user_req[r].pc = "idle"
    /\ Len(users) < MaxUsers
    /\ IF UsernameExists(user.username)
       THEN /\ reply' = Reply("register_user", 400, "Username already registered")
            /\ user_req' = user_req
       ELSE IF EmailExists(user.email)
            THEN /\ reply' = Reply("register_user", 400, "Email already registered")
                 /\ user_req' = user_req
            ELSE /\ reply' = reply
                 /\ user_req' = [user_req EXCEPT ![r] =
                       [pc |-> "checked", op |-> "register", current_user |-> 0,
                        user |-> user]]
    /\ users' = users
    /\ UNCHANGED <<products, orders, order_items, prescriptions, order_seq, session,
                   lab_orders, expenses>>

\* users.py:122-132: db.commit() inserts the row, or fails on a unique index
\* and is rolled back and answered 400 with the text of the exception
register_user_commit(r) ==
    /\ user_req[r].pc = "checked"
    /\ user_req[r].op = "register"
    /\ IF UniqueViolation(user_req[r].user, 0)
       THEN /\ reply' = Reply("register_user", 400, "IntegrityError")
            /\ users' = users
       ELSE /\ reply' = Reply("register_user", 201, "")
            /\ users' = Append(users, user_req[r].user)
    /\ user_req' = [user_req EXCEPT ![r] = IdleUserRequest]
    /\ UNCHANGED <<products, orders, order_items, prescriptions, order_seq, session,
                   lab_orders, expenses>>

\* users.py:162-192: current_user is the row get_current_user loaded; a name
\* or an email that differs from its own is looked up, then the fields are set
\* on the object
update_user(r, current_user, user_update) ==
    /\ user_req[r].pc = "idle"
    /\ current_user \in DOMAIN users
    /\ IF /\ user_update.username # users[current_user].username
          /\ UsernameExists(user_update.username)
       THEN /\ reply' = Reply("update_user", 400, "Username already taken")
            /\ user_req' = user_req
       ELSE IF /\ user_update.email # users[current_user].email
               /\ EmailExists(user_update.email)
            THEN /\ reply' = Reply("update_user", 400, "Email already registered")
                 /\ user_req' = user_req
            ELSE /\ reply' = reply
                 /\ user_req' = [user_req EXCEPT ![r] =
                       [pc |-> "checked", op |-> "update",
                        current_user |-> current_user, user |-> user_update]]
    /\ users' = users
    /\ UNCHANGED <<products, orders, order_items, prescriptions, order_seq, session,
                   lab_orders, expenses>>

\* users.py:194-204: db.commit() updates the row, or fails on a unique index
update_user_commit(r) ==
    /\ user_req[r].pc = "checked"
    /\ user_req[r].op = "update"
    /\ IF UniqueViolation(user_req[r].user, user_req[r].current_user)
       THEN /\ reply' = Reply("update_user", 400, "IntegrityError")
            /\ users' = users
       ELSE /\ reply' = Reply("update_user", 200, "")
            /\ users' = [users EXCEPT ![user_req[r].current_user] = user_req[r].user]
    /\ user_req' = [user_req EXCEPT ![r] = IdleUserRequest]
    /\ UNCHANGED <<products, orders, order_items, prescriptions, order_seq, session,
                   lab_orders, expenses>>

(* --------------------------- specification ----------------------------- *)

\* the order workflow: concurrent create_order requests over a catalogue
Next ==
    \/ \E s \in Sessions, order \in OrderInputs : CreateOrderBegin(s, order)
    \/ \E s \in Sessions : CreateOrderItem(s)
    \/ \E s \in Sessions : CreateOrderFlush(s)
    \/ \E s \in Sessions : CreateOrderCommit(s)
    \/ \E s \in Sessions : CreateOrderCommitFails(s)
    \/ \E product \in Catalogue : add_product(product)

Spec == Init /\ [][Next]_vars

\* the inventory endpoints, with one create_order request at a time
NextInventory ==
    \/ \E order \in InventoryOrderInputs : CreateOrderBegin("s1", order)
    \/ CreateOrderItem("s1")
    \/ CreateOrderFlush("s1")
    \/ CreateOrderCommit("s1")
    \/ CreateOrderCommitFails("s1")
    \/ \E product \in ProductInputs : add_product(product)
    \/ \E product \in ProductInputs : create_product(product)
    \/ \E product_id \in ProductIds, product_update \in ProductInputs :
            update_product(product_id, product_update)
    \/ \E product_id \in ProductIds, quantity \in Quantities, operation \in Operations :
            update_stock(product_id, quantity, operation)

SpecInventory == Init /\ [][NextInventory]_vars

\* stock adjustments alone, on the products add_product has inserted
NextStock ==
    \/ \E product \in ProductInputs : add_product(product)
    \/ \E product_id \in ProductIds, quantity \in Quantities, operation \in Operations :
            update_stock(product_id, quantity, operation)

SpecStock == Init /\ [][NextStock]_vars

\* the bodies sent while one create_order request at a time is followed line
\* by line: two failing lines in either order, the same product on two lines
\* (within the stock of 5 and beyond it), a negative and a zero quantity
LineInputs ==
    { OrderCreate(<<OrderItemBase(2, 3), OrderItemBase(3, 3)>>, NULL),
      OrderCreate(<<OrderItemBase(3, 3), OrderItemBase(2, 3)>>, NULL),
      OrderCreate(<<OrderItemBase(1, 2), OrderItemBase(1, 3)>>, NULL),
      OrderCreate(<<OrderItemBase(1, 3), OrderItemBase(1, 3)>>, NULL),
      OrderCreate(<<OrderItemBase(1, -1)>>, NULL),
      OrderCreate(<<OrderItemBase(1, 0)>>, NULL) }

NextLines ==
    \/ \E order \in LineInputs : CreateOrderBegin("s1", order)
    \/ CreateOrderItem("s1")
    \/ CreateOrderFlush("s1")
    \/ CreateOrderCommit("s1")
    \/ CreateOrderCommitFails("s1")
    \/ \E product \in Catalogue : add_product(product)

SpecLines == Init /\ [][NextLines]_vars

\* the life of an order after its creation: status updates, price changes of
\* its products and edits of its prescription
OrderLifeInputs ==
    { OrderCreate(<<OrderItemBase(1, 3)>>, Some("rx1")),
      OrderCreate(<<OrderItemBase(1, 3)>>, NULL) }

NextOrderLife ==
    \/ \E order \in OrderLifeInputs : CreateOrderBegin("s1", order)
    \/ CreateOrderItem("s1")
    \/ CreateOrderFlush("s1")
    \/ CreateOrderCommit("s1")
    \/ CreateOrderCommitFails("s1")
    \/ \E product \in Catalogue : add_product(product)
    \/ \E product_id \in ProductIds, product_update \in Catalogue :
            update_product(product_id, product_update)
    \/ \E order_id \in OrderIds, status \in StatusInputs :
            update_order_status(order_id, status)
    \/ \E prescription_id \in PrescriptionIds, prescription_update \in PrescriptionInputs :
            update_prescription(prescription_id, prescription_update)

SpecOrderLife == Init /\ [][NextOrderLife]_vars

\* orders are created and their status is updated, nothing else; the two
\* bodies fit together in the stock of 5
OrderStatusInputs ==
    { OrderCreate(<<OrderItemBase(1, 3)>>, Some("rx1")),
      OrderCreate(<<OrderItemBase(1, 2)>>, NULL) }

NextOrderStatus ==
    \/ \E order \in OrderStatusInputs : CreateOrderBegin("s1", order)
    \/ CreateOrderItem("s1")
    \/ CreateOrderFlush("s1")
    \/ CreateOrderCommit("s1")
    \/ CreateOrderCommitFails("s1")
    \/ \E product \in Catalogue : add_product(product)
    \/ \E order_id \in OrderIds, status \in StatusInputs :
            update_order_status(order_id, status)

SpecOrderStatus == Init /\ [][NextOrderStatus]_vars

\* the lab: orders with a prescription are created, lab orders are created
\* for prescriptions and worked on
LabPrescriptionOrders == { OrderCreate(<<OrderItemBase(1, 3)>>, Some("rx1")) }

NextLab ==
    \/ \E order \in LabPrescriptionOrders : CreateOrderBegin("s1", order)
    \/ CreateOrderItem("s1")
    \/ CreateOrderFlush("s1")
    \/ CreateOrderCommit("s1")
    \/ CreateOrderCommitFails("s1")
    \/ \E product \in Catalogue : add_product(product)
    \/ \E lab_order \in LabOrderInputs : create_lab_order(lab_order)
    \/ \E lab_order_id \in LabOrderIds, status \in LabStatusInputs :
            update_lab_order_status(lab_order_id, status)
    \/ \E lab_order_id \in LabOrderIds, notes \in NotesInputs :
            update_lab_order_notes(lab_order_id, notes)

SpecLab == Init /\ [][NextLab]_vars

\* the expense endpoints
NextExpenses ==
    \/ \E expense \in ExpenseInputs, current_user \in Callers :
            create_expense(expense, current_user)
    \/ \E expense_id \in ExpenseIds, expense_update \in ExpenseInputs,
          current_user \in Callers :
            update_expense(expense_id, expense_update, current_user)
    \/ \E expense_id \in ExpenseIds, current_user \in Callers :
            delete_expense(expense_id, current_user)
    \/ \E category \in CategoryFilters, current_user \in Callers :
            get_expenses(category, current_user)
    \/ \E period \in PeriodInputs, current_user \in Callers :
            get_expense_summary(period, current_user)
    \/ \E expense_id \in ExpenseIds, current_user \in Callers :
            get_expense(expense_id, current_user)

SpecExpenses == Init /\ [][NextExpenses]_vars

\* the user endpoints, two requests at a time
NextUsers ==
    \/ \E r \in UserRequests, user \in UserInputs : register_user(r, user)
    \/ \E r \in UserRequests : register_user_commit(r)
    \/ \E r \in UserRequests, current_user \in UserIds, user_update \in UserInputs :
            update_user(r, current_user, user_update)
    \/ \E r \in UserRequests : update_user_commit(r)

SpecUsers == Init /\ [][NextUsers]_vars

(* ======================================================================= *)
(*                               Properties                                *)
(* ======================================================================= *)

\* session s takes a step
Moves(s) == session'[s] # session[s]

\* the step is the end of db.commit() of session s, successful or not
CommitEnds(s) == session[s].pc = "commit" /\ session'[s].pc = "done"

\* the step is a successful db.commit() of session s
Commits(s) ==
    /\ CommitEnds(s)
    /\ Persisted(session[s].db_order[1].id, orders')

\* the step is a failed db.commit() of session s
CommitFails(s) ==
    /\ CommitEnds(s)
    /\ ~Persisted(session[s].db_order[1].id, orders')

RECURSIVE Requested(_, _)
\* the total quantity the lines of a body request of product p
Requested(items, p) ==
    IF items = <<>> THEN 0
    ELSE (IF Head(items).product_id = p THEN Head(items).quantity ELSE 0)
         + Requested(Tail(items), p)

\* the order_items rows of an order
ItemsOf(order_id) == SelectSeq(order_items, LAMBDA r : r.order_id = order_id)

RECURSIVE SumOfLines(_)
\* sum of price_at_time x quantity over rows; a row with a NULL column has no
\* amount, and then the sum has no value either
SumOfLines(rows) ==
    IF rows = <<>> THEN Some(0)
    ELSE LET r == Head(rows)
             rest == SumOfLines(Tail(rows))
         IN IF r.quantity = NULL \/ r.price_at_time = NULL \/ rest = NULL
            THEN NULL
            ELSE Some(r.price_at_time[1] * r.quantity[1] + rest[1])

(* ------------------------------- C1 ------------------------------------ *)

\* C1: in every reachable state every Product.stock is >= 0.
\* Fails: update_stock guards only operation = "decrease" (inventory.py:141), so
\* "increase" with a negative quantity lowers the stock below 0, and
\* add_product, create_product and update_product store any int as stock.
C1_StockNeverNegative ==
    \A p \in DOMAIN products : products[p].stock >= 0

(* ------------------------------- C2 ------------------------------------ *)

\* C2: a create_order request that fails validation (a line names a product
\* that does not exist, or asks for more than the working stock) leaves the
\* database as it was: no step of the request up to and including the failing
\* one changes a product, an order, a line item or a prescription, whatever
\* the earlier lines staged in the session.
C2_FailedOrderWritesNothing ==
    [][\A s \in Sessions :
          (Moves(s) /\ session[s].pc # "commit" /\ session'[s].pc # "commit")
             => persisted' = persisted]_vars

\* a request failed on its second line, on a product that does not exist,
\* after its first line had taken 3 of product 1 in the session; product 1
\* still has the 5 it was stocked with
C2_Witness ==
    \E s \in Sessions :
        /\ session[s].pc = "done"
        /\ Len(session[s].order.items) = 2
        /\ session[s].response[1].status_code >= 400
        /\ session[s].response[1].wraps = 404
        /\ session[s].response[1].detail.product_id = session[s].order.items[2].product_id
        /\ session[s].order.items[1].product_id = 1
        /\ session[s].order.items[1].quantity = 3
        /\ Len(products) = 1
        /\ products[1].stock = 5
        /\ orders = {}

(* ------------------------------- C3 ------------------------------------ *)

\* C3: for every persisted order, total_amount equals the sum over its
\* persisted line items of price_at_time x quantity.
\* Fails: the rows of order_items are written with order_id and product_id
\* only; quantity and price_at_time stay NULL.
C3_TotalIsSumOfLineItems ==
    \A o \in orders : SumOfLines(ItemsOf(o.id)) = Some(o.total_amount)

(* ------------------------------- C4 ------------------------------------ *)

\* C4: concurrent create_order requests never both act on the stock as it was
\* before the other's decrement: a request commits only if, for every product
\* it decrements, the stock it checked is still the committed stock.
\* Fails: two requests for 3 of a product with stock 5 both read 5, both pass
\* the check and both commit stock = 2.
C4_NoCommitOnStaleStock ==
    [][\A s \in Sessions :
          Commits(s) =>
             \A p \in Dirty(s) :
                products[p].stock = session[s].identity[p].loaded_stock]_vars

(* ------------------------------- C5 ------------------------------------ *)

\* C5: when db.commit() of create_order fails, nothing the request staged
\* (stock decrements, order, line items, prescription) becomes visible and the
\* caller gets a failure response.
C5_FailedCommitRollsBack ==
    [][\A s \in Sessions :
          CommitFails(s) =>
             /\ persisted' = persisted
             /\ session'[s].response # NULL
             /\ session'[s].response[1].status_code >= 400]_vars

\* a request with a prescription was flushed (an order id is used up), its
\* commit failed, and the database shows no order, no prescription and the
\* stock of 5 that the request had decremented in its session
C5_Witness ==
    \E s \in Sessions :
        /\ session[s].pc = "done"
        /\ session[s].response[1].detail = StorageError.detail
        /\ session[s].order.prescription # NULL
        /\ Requested(session[s].order.items, 1) = 3
        /\ order_seq = 1
        /\ orders = {}
        /\ order_items = <<>>
        /\ prescriptions = {}
        /\ Len(products) >= 1
        /\ products[1].stock = 5

(* ------------------------------- C6 ------------------------------------ *)

\* C6: every step of a create_order request shows readers either none of its
\* effects or all of them at once: the order row, one line item per line, the
\* prescription if the body has one, and the staged stock of every product
\* it changed.
C6_AllOrNothing ==
    [][\A s \in Sessions :
          Moves(s) =>
             \/ persisted' = persisted
             \/ /\ session[s].db_order # NULL
                /\ LET id == session[s].db_order[1].id
                       body == session[s].order
                   IN /\ Persisted(id, orders') /\ ~Persisted(id, orders)
                      /\ Len(order_items') = Len(order_items) + Len(body.items)
                      /\ \A k \in 1..Len(body.items) :
                            /\ order_items'[Len(order_items) + k].order_id = id
                            /\ order_items'[Len(order_items) + k].product_id =
                                  body.items[k].product_id
                      /\ (body.prescription # NULL) <=>
                            (\E r \in prescriptions' : r.order_id = id)
                      /\ DOMAIN products' = DOMAIN products
                      /\ \A p \in DOMAIN products :
                            products'[p] =
                               IF p \in Dirty(s)
                               THEN [products[p] EXCEPT
                                        !.stock = session[s].identity[p].stock]
                               ELSE products[p]]_vars

\* while a request holds a flushed order, a staged prescription and a staged
\* stock decrement, the database shows none of them
C6_Witness ==
    \E s \in Sessions :
        /\ session[s].pc = "commit"
        /\ session[s].prescription # NULL
        /\ Dirty(s) # {}
        /\ ~Persisted(session[s].db_order[1].id, orders)
        /\ \A r \in prescriptions : r.order_id # session[s].db_order[1].id
        /\ \A p \in Dirty(s) : products[p].stock = session[s].identity[p].loaded_stock

(* ------------------------------- C7 ------------------------------------ *)

\* C7: a create_order request whose lines all pass validation takes, for every
\* product, the total quantity requested off the stock and persists exactly
\* one new order.
\* Fails through the lost update of C4: the commit stores the stock computed
\* from the value the request read, not from the stock at commit.
C7_CommitTakesRequestedQuantity ==
    [][\A s \in Sessions :
          Commits(s) =>
             /\ \A p \in DOMAIN products :
                   products'[p].stock =
                      products[p].stock - Requested(session[s].order.items, p)
             /\ Cardinality(orders') = Cardinality(orders) + 1]_vars

(* ------------------------------- C8 ------------------------------------ *)

\* C8: a create_order request whose current line names a product that does not
\* exist is answered 404 and writes nothing.
\* Fails: the HTTPException(404) is raised inside the try block and caught by
\* `except Exception`, which answers 400.
C8_MissingProductIs404 ==
    [][\A s \in Sessions :
          ( /\ Moves(s)
            /\ session[s].pc = "items"
            /\ LineNo(s) <= Len(session[s].order.items)
            /\ Query(s, session[s].order.items[LineNo(s)].product_id) = NULL )
          => /\ session'[s].response # NULL
             /\ session'[s].response[1].status_code = 404
             /\ persisted' = persisted]_vars

(* ------------------------------- C9 ------------------------------------ *)

\* C9: an order is persisted if and only if the caller is told it succeeded:
\* the end of db.commit() leaves the order row visible exactly when the
\* response is the 201 carrying the order.
\* Fails: create_order never sets Order.user_id, OrderResponse requires an int,
\* and the committed order is answered 500.
C9_PersistedIffReportedCreated ==
    [][\A s \in Sessions :
          CommitEnds(s) =>
             (Persisted(session[s].db_order[1].id, orders')
                <=> session'[s].response[1].status_code = 201)]_vars

(* ------------------------------- C10 ----------------------------------- *)

\* C10: every order has status "pending" at the moment it becomes persistent.
C10_NewOrdersArePending ==
    [][\A o \in orders' \ orders : o.status = "pending"]_vars

\* an order created by create_order is in the table, pending
C10_Witness ==
    \E o \in orders : o.status = "pending" /\ o.id <= order_seq

(* ------------------------------- C11 ----------------------------------- *)

\* C11: the status of an order only ever moves from "pending" to "completed"
\* or from "pending" to "cancelled"; an order that is completed or cancelled
\* keeps that status whatever update_order_status calls follow.
\* Fails: update_order_status assigns any of the three valid values without
\* looking at the current one (pos.py:170), so a completed order goes back to
\* pending.
C11_OrderStatusMachine ==
    [][\A o \in orders : \A o2 \in orders' :
          (o2.id = o.id /\ o2.status # o.status)
             => (o.status = "pending" /\ o2.status \in {"completed", "cancelled"})]_vars

(* ------------------------------- C12 ----------------------------------- *)

\* the prescriptions linked to an order in a prescriptions table
LinkedTo(order_id, table) == { r \in table : r.order_id = order_id }

\* C12: the commit of a create_order request whose body has a prescription
\* leaves exactly one prescription linked to the new order, with the fields of
\* the payload; without a payload it leaves none.  In every state an order has
\* at most one prescription, and a prescription id names one row, linked to
\* one order.
C12_OnePrescriptionPerOrder ==
    /\ [](\A o \in orders : Cardinality(LinkedTo(o.id, prescriptions)) <= 1)
    /\ [](\A r1, r2 \in prescriptions : r1.id = r2.id => r1.order_id = r2.order_id)
    /\ [][\A s \in Sessions :
             Commits(s) =>
                LET id == session[s].db_order[1].id
                    payload == session[s].order.prescription
                IN IF payload = NULL
                   THEN LinkedTo(id, prescriptions') = {}
                   ELSE /\ Cardinality(LinkedTo(id, prescriptions')) = 1
                        /\ \A r \in LinkedTo(id, prescriptions') :
                              r.fields = payload[1]]_vars

\* two orders are persisted: one carries the prescription its request sent,
\* the other was created without a payload and has none
C12_Witness ==
    \E o1, o2 \in orders :
        /\ \E r \in prescriptions : r.order_id = o1.id /\ r.fields = "rx1"
        /\ LinkedTo(o2.id, prescriptions) = {}
        /\ session["s1"].pc = "done"

(* ------------------------------- C13 ----------------------------------- *)

\* C13: the commit of a create_order request persists one order_items row per
\* submitted line, and the row of line k records the quantity requested on
\* that line and the price the product had when the line was processed.
\* Fails: the rows are inserted through Order(products=order_products)
\* (pos.py:97) with the two foreign keys only; quantity and price_at_time are
\* never assigned.
C13_LineItemsRecordQuantityAndPrice ==
    [][\A s \in Sessions :
          Commits(s) =>
             LET body == session[s].order
             IN /\ Len(order_items') = Len(order_items) + Len(body.items)
                /\ \A k \in 1..Len(body.items) :
                      LET row == order_items'[Len(order_items) + k]
                      IN /\ row.product_id = body.items[k].product_id
                         /\ row.quantity = Some(body.items[k].quantity)
                         /\ row.price_at_time =
                               Some(session[s].identity[body.items[k].product_id].price)]_vars

(* ------------------------------- C14 ----------------------------------- *)

\* C14: once an order is persisted no step changes its total_amount or any of
\* its order_items rows: not update_product changing the price of a product on
\* the order, not update_order_status, not any other operation.
C14_OrderAmountsAreFrozen ==
    [][ /\ \A o \in orders :
              \E o2 \in orders' : o2.id = o.id /\ o2.total_amount = o.total_amount
        /\ Len(order_items') >= Len(order_items)
        /\ \A k \in 1..Len(order_items) : order_items'[k] = order_items[k] ]_vars

\* update_product has just raised the price of product 1 from 10 to 20, and
\* the order of 3 units placed before still has total_amount 30
C14_Witness ==
    /\ reply.op = "update_product"
    /\ reply.status_code = 200
    /\ \E o \in orders :
          /\ o.total_amount = 30
          /\ Len(ItemsOf(o.id)) = 1
          /\ products[ItemsOf(o.id)[1].product_id].price = 20

(* ------------------------------- C15 ----------------------------------- *)

\* C15: an update_stock call with operation "decrease" and a quantity larger
\* than the stock of the product is answered 400 and leaves that product and
\* every other product as they were.
C15_DecreaseBeyondStockIsRejected ==
    [][\A product_id \in ProductIds, quantity \in Quantities :
          ( /\ product_id \in DOMAIN products
            /\ quantity > products[product_id].stock
            /\ update_stock(product_id, quantity, "decrease") )
          => /\ reply'.status_code = 400
             /\ products' = products]_vars

\* a decrease of 3 was refused on a product that has 2, with another product
\* in the table
C15_Witness ==
    /\ reply = Reply("update_stock", 400, "Insufficient stock")
    /\ Len(products) = 2
    /\ \E p \in DOMAIN products : products[p].stock = 2

(* ------------------------------- C19 ----------------------------------- *)

\* C19: in every reachable state no two products have the same name.
\* Fails: create_product of the POS router inserts without looking the name up
\* (pos.py:50-52), and Product.name carries no unique constraint
\* (models.py:36).
C19_ProductNamesAreUnique ==
    \A p, q \in DOMAIN products : products[p].name = products[q].name => p = q

(* ------------------------------- C16 ----------------------------------- *)

\* C16: an update_lab_order_status call whose status is not one of pending,
\* in-progress, completed, cancelled is answered 400 and writes nothing: the
\* status and the notes of every lab order stay as they were.
\* Fails on the response: the handler's parameter named status hides the
\* fastapi status module, raising the HTTPException raises AttributeError
\* instead, and the caller gets 500.  Nothing is written.
C16_InvalidLabStatusIs400 ==
    [][\A lab_order_id \in LabOrderIds, status \in LabStatusInputs :
          ( /\ status \notin {"pending", "in-progress", "completed", "cancelled"}
            /\ update_lab_order_status(lab_order_id, status) )
          => /\ reply'.status_code = 400
             /\ lab_orders' = lab_orders]_vars

(* ------------------------------- C17 ----------------------------------- *)

\* C17: in every reachable state the status of every lab order is one of
\* pending, in-progress, completed, cancelled.
\* Fails: create_lab_order stores the status of its body as sent.
C17_LabStatusIsValid ==
    \A k \in DOMAIN lab_orders :
        lab_orders[k].status \in {"pending", "in-progress", "completed", "cancelled"}

(* ------------------------------- C18 ----------------------------------- *)

\* C18: a lab order whose status is completed or cancelled keeps that status:
\* no step changes it.
\* Fails: update_lab_order_status assigns any valid value whatever the current
\* one is (lab_orders.py:109).
C18_LabOrderTerminal ==
    [][\A k \in DOMAIN lab_orders :
          lab_orders[k].status \in {"completed", "cancelled"}
             => /\ k \in DOMAIN lab_orders'
                /\ lab_orders'[k].status = lab_orders[k].status]_vars

(* ------------------------------- C20 ----------------------------------- *)

\* C20: in every reachable state the category of every persisted expense is
\* one of EXPENSE_CATEGORIES, and a create_expense or update_expense call
\* whose category is outside that set is refused and leaves the expenses as
\* they were.
C20_ExpenseCategoryIsValid ==
    /\ [](\A e \in expenses : e.category \in EXPENSE_CATEGORIES)
    /\ [][\A expense \in ExpenseInputs, current_user \in Callers :
             ( /\ expense.category \notin EXPENSE_CATEGORIES
               /\ \/ create_expense(expense, current_user)
                  \/ \E expense_id \in ExpenseIds :
                        update_expense(expense_id, expense, current_user) )
             => /\ reply'.status_code \in {400, 403}
                /\ expenses' = expenses]_vars

\* an administrator's update with a category outside the set was refused on
\* a table that holds an expense, which keeps its category
C20_Witness ==
    /\ reply = Reply("update_expense", 400, "Invalid category")
    /\ \E e \in expenses : e.id = 1 /\ e.category = "rent"

(* ------------------------------- C21 ----------------------------------- *)

\* C21: when db.commit() of create_order fails for a reason of the storage
\* layer, the transaction is rolled back and the caller is answered 500 with
\* the generic detail, never the text of the exception.
\* Fails: `except Exception` (pos.py:115-120) answers every failure with
\* HTTPException(400, detail=str(e)); the handlers of error_handlers.py never
\* see the exception.
C21_UnexpectedFailureIs500 ==
    [][\A s \in Sessions :
          CommitFails(s) =>
             /\ persisted' = persisted
             /\ session'[s].response[1].status_code = 500
             /\ session'[s].response[1].detail = general_exception_handler.detail]_vars

(* ------------------------------- C23 ----------------------------------- *)

\* the stock line k of a body is checked against when the lines before it
\* have been taken off the committed stock of product p
WorkingStock(items, k, p) ==
    products[p].stock - Requested(SubSeq(items, 1, k - 1), p)

\* line k of a body names no product, or asks for more than the working stock
LineFails(items, k) ==
    \/ items[k].product_id \notin DOMAIN products
    \/ WorkingStock(items, k, items[k].product_id) < items[k].quantity

\* the first line that fails, in the order submitted (0 when none does)
FirstFailingLine(items) ==
    IF \E k \in 1..Len(items) : LineFails(items, k)
    THEN CHOOSE k \in 1..Len(items) :
            /\ LineFails(items, k)
            /\ \A j \in 1..(k - 1) : ~LineFails(items, j)
    ELSE 0

\* the error line k raises
LineError(items, k) ==
    IF items[k].product_id \notin DOMAIN products
    THEN HTTPException(404, Detail("Product with id not found", items[k].product_id, ""))
    ELSE HTTPException(400, Detail("Insufficient stock for product", 0,
                                   products[items[k].product_id].name))

\* C23: when the loop of a create_order request ends the request with a
\* failure, the error reported is the one of the first failing line of the
\* body in the order submitted, and the step changes no stock and no table.
C23_FirstFailingLineIsReported ==
    [][\A s \in Sessions :
          (session[s].pc = "items" /\ session'[s].pc = "done") =>
             LET items == session[s].order.items
                 k == FirstFailingLine(items)
             IN /\ k >= 1
                /\ session'[s].response[1].status_code >= 400
                /\ session'[s].response[1].detail = LineError(items, k).detail
                /\ session'[s].response[1].wraps = LineError(items, k).status_code
                /\ persisted' = persisted]_vars

\* a body whose two lines both fail (product 2 has 2 of the 3 asked, product 3
\* does not exist) was answered with the error of line 1, and product 2 still
\* has 2
C23_Witness ==
    /\ session["s1"].pc = "done"
    /\ session["s1"].order.items = <<OrderItemBase(2, 3), OrderItemBase(3, 3)>>
    /\ Len(products) = 2
    /\ products[2].stock = 2
    /\ LineFails(session["s1"].order.items, 1)
    /\ 3 \notin DOMAIN products
    /\ session["s1"].response[1].detail =
          Detail("Insufficient stock for product", 0, products[2].name)

(* ------------------------------- C24 ----------------------------------- *)

RECURSIVE LinesTotal(_)
\* sum over the lines of a body of price x quantity, every line counted
LinesTotal(items) ==
    IF items = <<>> THEN 0
    ELSE products[Head(items).product_id].price * Head(items).quantity
         + LinesTotal(Tail(items))

\* C24: lines naming the same product are not merged.  A line on an existing
\* product fails exactly when its quantity exceeds the stock left by the lines
\* before it, and a request that commits takes the sum of its lines off the
\* stock of each product and persists an order whose total counts every line.
C24_DuplicateLinesCompound ==
    [][\A s \in Sessions :
          /\ ( /\ session[s].pc = "items"
               /\ Moves(s)
               /\ LineNo(s) <= Len(session[s].order.items)
               /\ session[s].order.items[LineNo(s)].product_id \in DOMAIN products )
             => LET items == session[s].order.items
                    k == Len(session[s].order_products) + 1
                IN (session'[s].pc = "done")
                      <=> (WorkingStock(items, k, items[k].product_id) < items[k].quantity)
          /\ Commits(s)
             => /\ \A p \in DOMAIN products :
                      products'[p].stock =
                         products[p].stock - Requested(session[s].order.items, p)
                /\ \E o \in orders' \ orders :
                      o.total_amount = LinesTotal(session[s].order.items)]_vars

\* the body with 2 and then 3 of product 1 was committed on a stock of 5:
\* the stock is 0 and the order's total is 5 x 10
C24_Witness ==
    /\ session["s1"].pc = "done"
    /\ session["s1"].order.items = <<OrderItemBase(1, 2), OrderItemBase(1, 3)>>
    /\ Len(products) >= 1
    /\ products[1].stock = 0
    /\ \E o \in orders : o.total_amount = 50

(* ------------------------------- C25 ----------------------------------- *)

\* C25: a line whose quantity is zero or negative is not refused: on an
\* existing product whose working stock is not negative it passes the stock
\* check, the working stock goes up by the absolute quantity and the running
\* total goes down by price x absolute quantity, and the order is persisted
\* with that total.
C25_NegativeQuantityIsAccepted ==
    [][\A s \in Sessions :
          ( /\ session[s].pc = "items"
            /\ Moves(s)
            /\ LineNo(s) <= Len(session[s].order.items)
            /\ session[s].order.items[LineNo(s)].quantity <= 0
            /\ Query(s, session[s].order.items[LineNo(s)].product_id) # NULL
            /\ Query(s, session[s].order.items[LineNo(s)].product_id)[1].stock >= 0 )
          => LET item == session[s].order.items[LineNo(s)]
                 product == Query(s, item.product_id)[1]
             IN /\ session'[s].pc = "items"
                /\ session'[s].identity[item.product_id].stock =
                      product.stock - item.quantity
                /\ session'[s].total_amount =
                      session[s].total_amount + product.price * item.quantity]_vars

\* an order for -1 of a product was persisted: its total is negative and the
\* product has one more than the 2 it was stocked with
C25_Witness ==
    /\ session["s1"].pc = "done"
    /\ session["s1"].order.items = <<OrderItemBase(1, -1)>>
    /\ \E o \in orders : o.total_amount = -20
    /\ Len(products) >= 1
    /\ products[1].stock = 3

(* ------------------------------- C26 ----------------------------------- *)

\* C26: an update_stock call that succeeds changes the stock of the product
\* it names and nothing else: "increase" adds the quantity, "decrease" with a
\* quantity within the stock subtracts it.  A call with another operation
\* name, an unknown product id or a decrease beyond the stock is refused and
\* changes no product.  So wherever an increase of q is followed by a decrease
\* of q that succeeds, the stock is the original one.
C26_UpdateStockAlgebra ==
    /\ [][\A product_id \in ProductIds, quantity \in Quantities, operation \in Operations :
             update_stock(product_id, quantity, operation) =>
                IF /\ operation \in {"increase", "decrease"}
                   /\ product_id \in DOMAIN products
                   /\ ~(operation = "decrease" /\ quantity > products[product_id].stock)
                THEN /\ reply'.status_code = 200
                     /\ products' =
                           [products EXCEPT ![product_id].stock =
                               IF operation = "increase" THEN @ + quantity
                                                         ELSE @ - quantity]
                ELSE /\ reply'.status_code \in {400, 404}
                     /\ products' = products]_vars
    /\ [](\A p \in DOMAIN products : \A quantity \in Quantities :
             LET increased == AdjustedStock(products[p].stock, quantity, "increase")
             IN ~InsufficientStock(increased, quantity, "decrease")
                   => AdjustedStock(increased, quantity, "decrease") = products[p].stock)

\* a decrease of 3 succeeded on product A, which has 2 of its 5 left, and the
\* other product keeps its stock
C26_Witness ==
    /\ reply = Reply("update_stock", 200, "Stock updated successfully")
    /\ Len(products) = 2
    /\ products[1] = [name |-> "A", price |-> 10, stock |-> 2]
    /\ products[2] = [name |-> "B", price |-> 20, stock |-> 2]

(* ------------------------------- C27 ----------------------------------- *)

\* C27: in every reachable state the status of every order is pending,
\* completed or cancelled, and an update_order_status call with any other
\* value writes nothing: every order keeps its status.
C27_OrderStatusIsValid ==
    /\ [](\A o \in orders : o.status \in {"pending", "completed", "cancelled"})
    /\ [][\A order_id \in OrderIds, status \in StatusInputs :
             ( /\ status \notin {"pending", "completed", "cancelled"}
               /\ update_order_status(order_id, status) )
             => /\ persisted' = persisted
                /\ reply'.status_code >= 400]_vars

\* with both order ids in use, an update_order_status call failed: it can
\* only have been refused for its status value; one order is completed and
\* stays so
C27_Witness ==
    /\ reply.op = "update_order_status"
    /\ reply.status_code >= 400
    /\ \A order_id \in OrderIds : Persisted(order_id, orders)
    /\ \E o \in orders : o.status = "completed"

(* ------------------------------- C29 ----------------------------------- *)

\* C29: update_order_status changes nothing but the status of the order it
\* names: that order keeps its total_amount and owner, every other order,
\* every line item, every prescription and every product (its stock included)
\* stay as they were, also when the new status is cancelled, and a call for an
\* order id that does not exist changes nothing.
C29_StatusUpdateFrame ==
    [][\A order_id \in OrderIds, status \in StatusInputs :
          update_order_status(order_id, status) =>
             /\ products' = products
             /\ order_items' = order_items
             /\ prescriptions' = prescriptions
             /\ Cardinality(orders') = Cardinality(orders)
             /\ \A o \in orders :
                   IF o.id = order_id
                   THEN \E o2 \in orders' : o2 = [o EXCEPT !.status = o2.status]
                   ELSE o \in orders'
             /\ ~Persisted(order_id, orders) => orders' = orders]_vars

\* of two orders, for 3 and for 2 units of a product stocked with 5, the
\* first has just been cancelled: the stock is still 0, the cancelled order
\* keeps its total of 30, its line and its prescription, and the other order
\* is pending as before
C29_Witness ==
    /\ reply = Reply("update_order_status", 200, "Order status updated successfully")
    /\ \E o \in orders, other \in orders :
          /\ o.status = "cancelled"
          /\ o.total_amount = 30
          /\ Len(ItemsOf(o.id)) = 1
          /\ products[ItemsOf(o.id)[1].product_id].stock = 0
          /\ \E r \in prescriptions : r.order_id = o.id
          /\ other.id # o.id
          /\ other.status = "pending"
          /\ other.total_amount = 20

(* ------------------------------- C28 ----------------------------------- *)

\* C28: a create_lab_order call whose prescription_id matches no prescription
\* is answered 404 and persists no lab order; every lab order that enters the
\* table references a prescription that exists at that moment.
C28_LabOrderNeedsPrescription ==
    [][ /\ \A lab_order \in LabOrderInputs :
              ( /\ \A r \in prescriptions : r.id # lab_order.prescription_id
                /\ create_lab_order(lab_order) )
              => /\ reply'.status_code = 404
                 /\ lab_orders' = lab_orders
        /\ \A k \in DOMAIN lab_orders' \ DOMAIN lab_orders :
              \E r \in prescriptions : r.id = lab_orders'[k].prescription_id ]_vars

\* prescription 1 exists, no lab order does, and a call naming a prescription
\* that does not exist has just been refused
C28_Witness ==
    /\ reply = Reply("create_lab_order", 404, "Prescription not found")
    /\ \E r \in prescriptions : r.id = 1
    /\ lab_orders = <<>>

(* ------------------------------- C30 ----------------------------------- *)

\* C30: every expense operation called by a user who is not an administrator
\* (create_expense, get_expenses, get_expense_summary, get_expense,
\* update_expense, delete_expense) is answered 403, whatever else is wrong
\* with the call, and leaves the expenses as they were.
C30_ExpensesAreAdminOnly ==
    [][\A current_user \in Callers :
          ( /\ ~current_user.is_admin
            /\ \/ \E expense \in ExpenseInputs : create_expense(expense, current_user)
               \/ \E category \in CategoryFilters : get_expenses(category, current_user)
               \/ \E period \in PeriodInputs : get_expense_summary(period, current_user)
               \/ \E expense_id \in ExpenseIds : get_expense(expense_id, current_user)
               \/ \E expense_id \in ExpenseIds, expense \in ExpenseInputs :
                     update_expense(expense_id, expense, current_user)
               \/ \E expense_id \in ExpenseIds : delete_expense(expense_id, current_user) )
          => /\ reply'.status_code = 403
             /\ expenses' = expenses]_vars

\* a user who is not an administrator asked to delete, and the expense an
\* administrator created is still there
C30_Witness ==
    /\ reply = Reply("delete_expense", 403, "Not authorized to delete expenses")
    /\ \E e \in expenses : e.id = 1 /\ e.created_by = 1

(* ------------------------------- C22 ----------------------------------- *)

\* another row than `self` has the username or the email of `row`
Duplicates(row, self) ==
    \E k \in DOMAIN users :
        k # self /\ (users[k].username = row.username \/ users[k].email = row.email)

\* C22: in every reachable state no two users have the same username and no
\* two have the same email, however register_user and update_user requests
\* interleave; and a request whose row would duplicate the username or the
\* email of another user is answered 400 at the step that meets the
\* duplicate, its lookups or its commit, and changes no user.
C22_UsersAreUnique ==
    /\ [](\A i, j \in DOMAIN users :
             (users[i].username = users[j].username \/ users[i].email = users[j].email)
                => i = j)
    /\ [][\A r \in UserRequests :
             /\ \A user \in UserInputs :
                   (Duplicates(user, 0) /\ register_user(r, user))
                      => (users' = users /\ reply'.status_code = 400)
             /\ \A current_user \in UserIds, user_update \in UserInputs :
                   ( /\ current_user \in DOMAIN users
                     /\ Duplicates(user_update, current_user)
                     /\ update_user(r, current_user, user_update) )
                      => (users' = users /\ reply'.status_code = 400)
             /\ ( /\ user_req[r].pc = "checked"
                  /\ user_req'[r].pc = "idle"
                  /\ Duplicates(user_req[r].user, user_req[r].current_user) )
                   => (users' = users /\ reply'.status_code = 400)]_vars

\* two registrations of the same username both passed their lookups; one was
\* committed and the other has just been refused by the unique index
C22_Witness ==
    /\ reply = Reply("register_user", 400, "IntegrityError")
    /\ Len(users) = 1
    /\ \A r \in UserRequests : user_req[r].pc = "idle"

====
